---------------------------- MODULE Spec2Model ----------------------------
(***************************************************************************)
(* A model of lint-diffs (src/lint_diffs/__init__.py).                     *)
(*                                                                         *)
(* Four specifications share the module:                                   *)
(*   SpecParse   parse_output, one loop iteration per step                 *)
(*   SpecDiff    read_diffs, one hunk / one patch per step                 *)
(*   SpecConfig  _config_to_dict, one section per step                     *)
(*   Spec        main: dispatch of the rules over print_lint, sequentially *)
(*               or in the thread pool, and the exit status                *)
(*                                                                         *)
(* Text is modelled as sequences of one-character strings where the code   *)
(* looks inside it (paths, captured line numbers, error codes).            *)
(***************************************************************************)
EXTENDS Integers, Sequences, FiniteSets, TLC

VARIABLES
    \* parse_output (also read by do_lint in Spec)
    diffs,          \* dict: normalised path -> set of line numbers
    always_report,  \* the rule's always_report option
    debug,          \* config["debug"]
    stdout,         \* ret.stdout.split("\n")
    returncode,     \* ret.returncode
    lineix,         \* number of lines of stdout the loop has consumed
    acc,            \* the five counters and outf
    result,         \* the LintResult returned, NoResult before the return
    \* main
    strict,         \* config["strict"]
    parallel,       \* config["parallel"]
    linters,        \* the rules dispatched (the keys of the linters dict)
    pc,             \* per rule: where its print_lint call stands
    outcome,        \* per rule: what subprocess.run did
    ret,            \* per rule: the LintResult do_lint returned
    value,          \* per rule: what print_lint returned
    console,        \* what has been printed, in order
    lock,           \* CONSOLE_LOCK: "free" or the rule holding it
    exited,         \* "no", or how main ended: "return", "sys.exit", "exception"
    exitcode,       \* the process's exit status once main has ended
    \* read_diffs
    diff_lines,     \* the dict being built: patch.path -> set of line numbers
    phase,          \* "start", "hunks" (inside a patch), "stored", "returned"
    patch_path,     \* patch.path of the patch being read
    lnos,           \* the patch's set of line numbers
    target,         \* the patch's target side so far: line number -> kind
    npatches,       \* patches read
    \* _config_to_dict
    config,         \* the sections of the ConfigParser
    todo,           \* the section names the loop has yet to visit
    final,          \* the dict being built
    errors          \* log.error calls

parseVars == <<diffs, always_report, debug, stdout, returncode, lineix, acc, result>>

mainVars ==
    <<strict, parallel, linters, pc, outcome, ret, value, console, lock, exited,
      exitcode>>

diffVars == <<diff_lines, phase, patch_path, lnos, target, npatches>>

configVars == <<config, todo, final, errors>>

vars == <<parseVars, mainVars, diffVars, configVars>>

\* ------------------------------------------------------------------ bounds

\* Most lines a linter prints in SpecParse.
MaxLines == 2

\* Linters exit with a status in 0..MaxRet, or die of a signal in 1..MaxSignal.
MaxRet == 2

MaxSignal == 1

\* The --parallel values tried: 1..MaxParallel.
MaxParallel == 2

\* Target line numbers a diff mentions: 1..MaxTargetLine.
MaxTargetLine == 3

\* Most lines in a hunk.
MaxHunkLen == 2

\* Most patches (file entries) in a diff.
MaxPatches == 2

\* ------------------------------------------------------------------- data

NOTFOUND == -9

FileA == <<"t", "/", "b">>
FileAWin == <<"t", "\\", "b">>
FileC == <<"c">>

\* What the regex's  line  group captures: digits, or something int() rejects.
LnoTexts == {<<"1">>, <<"2">>, <<"X", "X">>}

\* What the regex's  err  group captures.
Codes == {<<"E", "1">>, <<"W", "1">>}

Preamble == [match |-> FALSE, file |-> <<>>, line |-> <<>>, err |-> <<>>]

\* The lines a linter can print: findings the rule's regex matches, and one
\* line (a preamble, a summary, the empty line) it does not match.
Findings == [match : {TRUE}, file : {FileA, FileAWin}, line : LnoTexts, err : Codes]

Lines == Findings \cup {Preamble}

None == [set |-> FALSE, pat |-> <<>>]

\* always_report: unset, the empty string, or a literal pattern.
AlwaysReports == {None, [set |-> TRUE, pat |-> <<>>], [set |-> TRUE, pat |-> <<"W">>]}

DiffChoices == {<<>>} \cup { [f \in {FileA} |-> S] : S \in SUBSET {1, 2} }

NoResult == [none |-> TRUE]

RECURSIVE SeqsUpTo(_, _)
SeqsUpTo(S, n) ==
    IF n = 0 THEN {<<>>}
    ELSE LET shorter == SeqsUpTo(S, n - 1)
         IN  shorter \cup { Append(s, x) : s \in shorter, x \in S }

\* ---------------------------------------------------------- parse_output

\* re.match(regex, line) for the rule's output regex.
ReMatch(line) == line.match

\* re.match(always_report, err) for a literal pattern: a match at the start.
ReMatchErr(pat, err) ==
    /\ Len(pat) <= Len(err)
    /\ SubSeq(err, 1, Len(pat)) = pat

\* fname.translate(str.maketrans("\\", "/"))
translate(fname) == [i \in 1..Len(fname) |-> IF fname[i] = "\\" THEN "/" ELSE fname[i]]

Digits == <<"0", "1", "2", "3", "4", "5", "6", "7", "8", "9">>

IsDigit(c) == \E i \in 1..Len(Digits) : Digits[i] = c

DigitVal(c) == (CHOOSE i \in 1..Len(Digits) : Digits[i] = c) - 1

RECURSIVE DecVal(_)
DecVal(s) ==
    IF s = <<>> THEN 0
    ELSE DecVal(SubSeq(s, 1, Len(s) - 1)) * 10 + DigitVal(s[Len(s)])

\* try: lno = int(lno) / except ValueError: lno keeps the captured text.
ParseLno(text) ==
    IF text # <<>> /\ \A i \in 1..Len(text) : IsDigit(text[i])
    THEN [isint |-> TRUE, val |-> DecVal(text)]
    ELSE [isint |-> FALSE, val |-> 0]

\* diffs.get(fname, [])
DiffGet(d, fname) == IF fname \in DOMAIN d THEN d[fname] ELSE {}

\* lno in diffs.get(fname, []): a str is never equal to an int.
LnoIn(lno, S) == lno.isint /\ lno.val \in S

\* if always_report: (None and "" are falsy) ... re.match(always_report, err)
AlwaysMatch(ar, err) == ar.set /\ ar.pat # <<>> /\ ReMatchErr(ar.pat, err)

EmptyAcc ==
    [skipped_cnt |-> 0, total_cnt |-> 0, always_cnt |-> 0, mine_cnt |-> 0,
     other_cnt |-> 0, outf |-> <<>>]

\* print(..., file=outf): one entry per printed line, <<prefix, line>>.
PrintTo(outf, prefix, line) == Append(outf, <<prefix, line>>)

\* The unmatched branch of the loop body.
SkipLine(a, line) ==
    [a EXCEPT !.skipped_cnt = @ + 1, !.outf = PrintTo(@, "# ", line)]

\* Mutant of ClassifyLine: a finding outside the diff is printed as well.
ClassifyLine_PrintsOther(d, ar, a, line) ==
    LET fname == translate(line.file)
        lno == ParseLno(line.line)
        always_match == AlwaysMatch(ar, line.err)
    IN  IF ~LnoIn(lno, DiffGet(d, fname))
        THEN IF ~always_match
             THEN [a EXCEPT !.other_cnt = @ + 1, !.outf = PrintTo(@, "", line)]
             ELSE [a EXCEPT !.always_cnt = @ + 1, !.outf = PrintTo(@, "", line)]
        ELSE [a EXCEPT !.mine_cnt = @ + 1, !.outf = PrintTo(@, "", line)]

\* Mutant of ClassifyLine: the always_report test comes before the diff test.
ClassifyLine_AlwaysFirst(d, ar, a, line) ==
    LET fname == translate(line.file)
        lno == ParseLno(line.line)
        always_match == AlwaysMatch(ar, line.err)
    IN  IF always_match
        THEN [a EXCEPT !.always_cnt = @ + 1, !.outf = PrintTo(@, "", line)]
        ELSE IF LnoIn(lno, DiffGet(d, fname))
             THEN [a EXCEPT !.mine_cnt = @ + 1, !.outf = PrintTo(@, "", line)]
             ELSE [a EXCEPT !.other_cnt = @ + 1]

\* The classification of a matched line and its effect on the counters.
ClassifyLine(d, ar, a, line) ==
    LET fname == translate(line.file)
        lno == ParseLno(line.line)
        always_match == AlwaysMatch(ar, line.err)
    IN  IF ~LnoIn(lno, DiffGet(d, fname))
        THEN IF ~always_match
             THEN [a EXCEPT !.other_cnt = @ + 1]
             ELSE [a EXCEPT !.always_cnt = @ + 1, !.outf = PrintTo(@, "", line)]
        ELSE [a EXCEPT !.mine_cnt = @ + 1, !.outf = PrintTo(@, "", line)]

\* One iteration of  for line in ret.stdout.split("\n").
LoopBody(d, ar, a, line) ==
    LET counted == [a EXCEPT !.total_cnt = @ + 1]
    IN  IF ~ReMatch(line) THEN SkipLine(counted, line)
        ELSE ClassifyLine(d, ar, counted, line)

LintResult(rc, a) ==
    [returncode |-> rc, skipped |-> a.skipped_cnt, total |-> a.total_cnt,
     mine |-> a.mine_cnt, always |-> a.always_cnt, other |-> a.other_cnt,
     output |-> a.outf]

linted(r) == r.always + r.mine

RECURSIVE ParseLoop(_, _, _, _)
ParseLoop(d, ar, lines, n) ==
    IF n = 0 THEN EmptyAcc
    ELSE LoopBody(d, ar, ParseLoop(d, ar, lines, n - 1), lines[n])

\* parse_output as a function of its arguments.
parse_output(d, lines, rc, ar) ==
    LintResult(rc, ParseLoop(d, ar, lines, Len(lines)))

IdleParse ==
    /\ debug = FALSE
    /\ stdout = <<>>
    /\ returncode = 0
    /\ lineix = 0
    /\ acc = EmptyAcc
    /\ result = NoResult

IdleMain ==
    /\ strict = FALSE
    /\ parallel = 1
    /\ linters = {}
    /\ pc = <<>>
    /\ outcome = <<>>
    /\ ret = <<>>
    /\ value = <<>>
    /\ console = <<>>
    /\ lock = "free"
    /\ exited = "no"
    /\ exitcode = 0

IdleDiff ==
    /\ diff_lines = <<>>
    /\ phase = "start"
    /\ patch_path = <<>>
    /\ lnos = {}
    /\ target = <<>>
    /\ npatches = 0

IdleConfig ==
    /\ config = <<>>
    /\ todo = <<>>
    /\ final = <<>>
    /\ errors = 0

InitParse ==
    /\ IdleMain
    /\ IdleDiff
    /\ IdleConfig
    /\ diffs \in DiffChoices
    /\ always_report \in AlwaysReports
    /\ debug \in BOOLEAN
    /\ stdout \in SeqsUpTo(Lines, MaxLines) \ {<<>>}
    /\ returncode \in {0, 1}
    /\ lineix = 0
    /\ acc = EmptyAcc
    /\ result = NoResult

ParseLine ==
    /\ result = NoResult
    /\ lineix < Len(stdout)
    /\ lineix' = lineix + 1
    /\ acc' = LoopBody(diffs, always_report, acc, stdout[lineix + 1])
    /\ UNCHANGED <<diffs, always_report, debug, stdout, returncode, result>>
    /\ UNCHANGED <<mainVars, diffVars, configVars>>

ParseReturn ==
    /\ result = NoResult
    /\ lineix = Len(stdout)
    /\ result' = LintResult(returncode, acc)
    /\ UNCHANGED <<diffs, always_report, debug, stdout, returncode, lineix, acc>>
    /\ UNCHANGED <<mainVars, diffVars, configVars>>

NextParse == ParseLine \/ ParseReturn

SpecParse == InitParse /\ [][NextParse]_vars

\* ------------------------------------------------------------------ main

\* The rules of the configuration, in the order the linters dict holds them.
Items == <<"pylint", "flake8", "clang-tidy">>

Linters == {Items[i] : i \in 1..Len(Items)}

Index(r) == CHOOSE i \in 1..Len(Items) : Items[i] = r

\* What a spawned linter can return: an exit status, or minus the signal that
\* killed it. SIGKILL is signal 9, so a killed linter returns the value of
\* NOTFOUND.
RetCodes == (0..MaxRet) \cup { 0 - s : s \in 1..MaxSignal } \cup {NOTFOUND}

Finding(file, line, err) == [match |-> TRUE, file |-> file, line |-> line, err |-> err]

\* What a spawned linter prints in Spec: a preamble and a finding outside the
\* diff (linted = 0), or a finding in the diff and one that always_report hits
\* (linted = 2).
Outputs ==
    { <<Preamble, Finding(FileAWin, <<"1">>, <<"E", "1">>)>>,
      <<Finding(FileA, <<"2">>, <<"E", "1">>), Finding(FileA, <<"1">>, <<"W", "1">>)>> }

\* The LintResult of do_lint's except FileNotFoundError branch.
NotFoundResult ==
    [returncode |-> NOTFOUND, skipped |-> 0, total |-> 0, mine |-> 0, always |-> 0,
     other |-> 0, output |-> <<<<"", "Command not found">>>>]

\* Mutant of PrintLintValue: a command that is not found never fails the run.
PrintLintValue_IgnoresStrict(r, st) ==
    IF r.returncode = NOTFOUND THEN 0
    ELSE IF linted(r) > 0 THEN (IF r.returncode # 0 THEN r.returncode ELSE 1)
    ELSE 0

\* What print_lint returns; False counts as 0.
PrintLintValue(r, st) ==
    IF r.returncode = NOTFOUND THEN (IF st THEN 1 ELSE 0)
    ELSE IF linted(r) > 0 THEN (IF r.returncode # 0 THEN r.returncode ELSE 1)
    ELSE 0

RECURSIVE MaxOf(_)
MaxOf(S) ==
    LET x == CHOOSE y \in S : TRUE
    IN  IF S = {x} THEN x
        ELSE LET m == MaxOf(S \ {x}) IN IF x > m THEN x ELSE m

\* The threads that run print_lint: the pool's when parallel > 1, else main's.
PoolSize == IF parallel > 1 THEN parallel ELSE 1

Running == { r \in linters : pc[r] \in {"lock", "print_output", "print_summary", "unlock"} }

\* map and pool.map hand out the items in order, to a thread that is idle.
CanStart(r) ==
    /\ r \in linters
    /\ exited = "no"
    /\ pc[r] = "queued"
    /\ \A q \in linters : Index(q) < Index(r) => pc[q] # "queued"
    /\ Cardinality(Running) < PoolSize

\* Mutant of CanAcquire: the console is written without waiting for the lock.
CanAcquire_NoLock == TRUE

\* with CONSOLE_LOCK: blocks until the lock is free.
CanAcquire == lock = "free"

InitMain ==
    /\ diffs = [f \in {FileA} |-> {2}]
    /\ always_report = [set |-> TRUE, pat |-> <<"W">>]
    /\ IdleParse
    /\ IdleDiff
    /\ IdleConfig
    /\ strict \in BOOLEAN
    /\ parallel \in 1..MaxParallel
    /\ linters \in SUBSET Linters
    /\ pc = [r \in Linters |-> IF r \in linters THEN "queued" ELSE "none"]
    /\ outcome = [r \in Linters |-> "none"]
    /\ ret = [r \in Linters |-> NoResult]
    /\ value = [r \in Linters |-> 0]
    /\ console = <<>>
    /\ lock = "free"
    /\ exited = "no"
    /\ exitcode = 0

\* if not linters: return
NoWork ==
    /\ exited = "no"
    /\ linters = {}
    /\ exited' = "return"
    /\ exitcode' = 0
    /\ UNCHANGED <<strict, parallel, linters, pc, outcome, ret, value, console, lock>>
    /\ UNCHANGED <<parseVars, diffVars, configVars>>

\* do_lint: the linter is spawned, exits, and its output is parsed.
LintExited(r) ==
    /\ CanStart(r)
    /\ \E rc \in RetCodes, out \in Outputs :
          ret' = [ret EXCEPT ![r] = parse_output(diffs, out, rc, always_report)]
    /\ outcome' = [outcome EXCEPT ![r] = "exited"]
    /\ pc' = [pc EXCEPT ![r] = "lock"]
    /\ UNCHANGED <<strict, parallel, linters, value, console, lock, exited, exitcode>>
    /\ UNCHANGED <<parseVars, diffVars, configVars>>

\* do_lint: subprocess.run raises FileNotFoundError.
LintNotFound(r) ==
    /\ CanStart(r)
    /\ ret' = [ret EXCEPT ![r] = NotFoundResult]
    /\ outcome' = [outcome EXCEPT ![r] = "notfound"]
    /\ pc' = [pc EXCEPT ![r] = "lock"]
    /\ UNCHANGED <<strict, parallel, linters, value, console, lock, exited, exitcode>>
    /\ UNCHANGED <<parseVars, diffVars, configVars>>

\* do_lint: subprocess.run raises another OSError (PermissionError, ...), which
\* nothing catches. Under map it leaves max() and main at once; a pool thread
\* keeps it for pool.map to raise once every task is done.
LintRaises(r) ==
    /\ CanStart(r)
    /\ outcome' = [outcome EXCEPT ![r] = "oserror"]
    /\ pc' = [pc EXCEPT ![r] = "raised"]
    /\ IF parallel > 1
       THEN UNCHANGED <<exited, exitcode>>
       ELSE exited' = "exception" /\ exitcode' = 1
    /\ UNCHANGED <<strict, parallel, linters, ret, value, console, lock>>
    /\ UNCHANGED <<parseVars, diffVars, configVars>>

Acquire(r) ==
    /\ r \in linters
    /\ pc[r] = "lock"
    /\ CanAcquire
    /\ lock' = r
    /\ pc' = [pc EXCEPT ![r] = "print_output"]
    /\ UNCHANGED <<strict, parallel, linters, outcome, ret, value, console, exited, exitcode>>
    /\ UNCHANGED <<parseVars, diffVars, configVars>>

\* print(ret.output)
PrintOutput(r) ==
    /\ r \in linters
    /\ pc[r] = "print_output"
    /\ console' = Append(console, [rule |-> r, what |-> "output"])
    /\ pc' = [pc EXCEPT ![r] = "print_summary"]
    /\ UNCHANGED <<strict, parallel, linters, outcome, ret, value, lock, exited, exitcode>>
    /\ UNCHANGED <<parseVars, diffVars, configVars>>

\* print("=== %s: mine=%s, always=%s\n" % ...)
PrintSummary(r) ==
    /\ r \in linters
    /\ pc[r] = "print_summary"
    /\ console' = Append(console, [rule |-> r, what |-> "summary"])
    /\ pc' = [pc EXCEPT ![r] = "unlock"]
    /\ UNCHANGED <<strict, parallel, linters, outcome, ret, value, lock, exited, exitcode>>
    /\ UNCHANGED <<parseVars, diffVars, configVars>>

\* The with block ends, and print_lint returns its value.
Release(r) ==
    /\ r \in linters
    /\ pc[r] = "unlock"
    /\ lock' = "free"
    /\ value' = [value EXCEPT ![r] = PrintLintValue(ret[r], strict)]
    /\ pc' = [pc EXCEPT ![r] = "done"]
    /\ UNCHANGED <<strict, parallel, linters, outcome, ret, console, exited, exitcode>>
    /\ UNCHANGED <<parseVars, diffVars, configVars>>

AllFinished == \A r \in linters : pc[r] \in {"done", "raised"}

\* exitcode = max(mapper(...)); if exitcode != 0: sys.exit(exitcode)
Aggregate ==
    /\ exited = "no"
    /\ linters # {}
    /\ \A r \in linters : pc[r] = "done"
    /\ exitcode' = MaxOf({ value[r] : r \in linters })
    /\ exited' = IF exitcode' # 0 THEN "sys.exit" ELSE "return"
    /\ UNCHANGED <<strict, parallel, linters, pc, outcome, ret, value, console, lock>>
    /\ UNCHANGED <<parseVars, diffVars, configVars>>

\* pool.map raises the exception a task raised once every task is done; main
\* does not catch it, and the interpreter exits with status 1.
AggregateRaises ==
    /\ exited = "no"
    /\ AllFinished
    /\ \E r \in linters : pc[r] = "raised"
    /\ exited' = "exception"
    /\ exitcode' = 1
    /\ UNCHANGED <<strict, parallel, linters, pc, outcome, ret, value, console, lock>>
    /\ UNCHANGED <<parseVars, diffVars, configVars>>

Next ==
    \/ NoWork
    \/ \E r \in Linters : LintExited(r)
    \/ \E r \in Linters : LintNotFound(r)
    \/ \E r \in Linters : LintRaises(r)
    \/ \E r \in Linters : Acquire(r)
    \/ \E r \in Linters : PrintOutput(r)
    \/ \E r \in Linters : PrintSummary(r)
    \/ \E r \in Linters : Release(r)
    \/ Aggregate
    \/ AggregateRaises

Spec == InitMain /\ [][Next]_vars

\* ------------------------------------------------------------ read_diffs

\* A hunk as unidiff parses it: where it starts in the target file, and its
\* lines: "+" added, "-" removed, " " unchanged context. A hunk changes
\* something, and its target lines lie within 1..MaxTargetLine.
LineTypes == {"+", "-", " "}

Hunks(from) ==
    { h \in [target_start : from..MaxTargetLine,
             lines : SeqsUpTo(LineTypes, MaxHunkLen) \ {<<>>}] :
        /\ \E i \in 1..Len(h.lines) : h.lines[i] # " "
        /\ h.target_start + Cardinality({ i \in 1..Len(h.lines) : h.lines[i] # "-" }) - 1
              <= MaxTargetLine }

\* Line.target_line_no as unidiff numbers it: added and context lines count
\* on from target_start; a removed line has none (index 0 here).
target_line_no(h, i) ==
    IF h.lines[i] = "-" THEN 0
    ELSE h.target_start + Cardinality({ j \in 1..(i - 1) : h.lines[j] # "-" })

\* hunk.target_lines() of unidiff: the hunk's added and context lines.
target_lines(h) == { i \in 1..Len(h.lines) : h.lines[i] \in {"+", " "} }

\* Mutant of HunkLnos: only the added lines are collected.
HunkLnos_AddedOnly(h) ==
    { target_line_no(h, i) : i \in { j \in target_lines(h) : h.lines[j] = "+" } }

\* for line_info in hunk.target_lines(): lnos.add(line_info.target_line_no)
HunkLnos(h) == { target_line_no(h, i) : i \in target_lines(h) }

\* The kinds of the target lines of the patch, with those of one more hunk.
WithHunk(t, h) ==
    [n \in 1..MaxTargetLine |->
        IF \E i \in 1..Len(h.lines) : h.lines[i] # "-" /\ target_line_no(h, i) = n
        THEN LET i == CHOOSE j \in 1..Len(h.lines) :
                          h.lines[j] # "-" /\ target_line_no(h, j) = n
             IN  IF h.lines[i] = "+" THEN "added" ELSE "context"
        ELSE t[n]]

\* The first target line after the hunks read so far: hunks come in order
\* and do not overlap.
NextFree == 1 + Cardinality({ n \in 1..MaxTargetLine : \E m \in n..MaxTargetLine : target[m] # "none" })

\* d[k] = v on a dict
DictSet(d, k, v) == [x \in DOMAIN d \cup {k} |-> IF x = k THEN v ELSE d[x]]

InitDiff ==
    /\ diffs = <<>>
    /\ always_report = None
    /\ IdleParse
    /\ IdleMain
    /\ IdleConfig
    /\ diff_lines = <<>>
    /\ phase = "start"
    /\ patch_path = <<>>
    /\ lnos = {}
    /\ target = [n \in 1..MaxTargetLine |-> "none"]
    /\ npatches = 0

\* for patch in patch_set: lnos = set()
BeginPatch ==
    /\ phase \in {"start", "stored"}
    /\ npatches < MaxPatches
    /\ \E path \in {FileA, FileC} : patch_path' = path
    /\ lnos' = {}
    /\ target' = [n \in 1..MaxTargetLine |-> "none"]
    /\ npatches' = npatches + 1
    /\ phase' = "hunks"
    /\ UNCHANGED diff_lines
    /\ UNCHANGED <<parseVars, mainVars, configVars>>

\* for hunk in patch: the next hunk of the patch and its target lines.
ReadHunk ==
    /\ phase = "hunks"
    /\ \E h \in Hunks(NextFree) :
          /\ lnos' = lnos \cup HunkLnos(h)
          /\ target' = WithHunk(target, h)
    /\ UNCHANGED <<diff_lines, phase, patch_path, npatches>>
    /\ UNCHANGED <<parseVars, mainVars, configVars>>

\* diff_lines[patch.path] = lnos
EndPatch ==
    /\ phase = "hunks"
    /\ diff_lines' = DictSet(diff_lines, patch_path, lnos)
    /\ phase' = "stored"
    /\ UNCHANGED <<patch_path, lnos, target, npatches>>
    /\ UNCHANGED <<parseVars, mainVars, configVars>>

\* return diff_lines
ReturnDiffs ==
    /\ phase \in {"start", "stored"}
    /\ phase' = "returned"
    /\ UNCHANGED <<diff_lines, patch_path, lnos, target, npatches>>
    /\ UNCHANGED <<parseVars, mainVars, configVars>>

NextDiff == BeginPatch \/ ReadHunk \/ EndPatch \/ ReturnDiffs

SpecDiff == InitDiff /\ [][NextDiff]_vars

\* The last patch has been read whole and its set stored.
PatchStored == phase = "stored" \/ (phase = "returned" /\ npatches > 0)

\* C6 as claimed: the set stored for a file holds exactly the target line
\* numbers of its added lines; context lines are not in it.
C6_OnlyAddedLines ==
    PatchStored =>
        diff_lines[patch_path] = { n \in 1..MaxTargetLine : target[n] = "added" }

\* C6 as amended: the set stored for a file holds exactly the line numbers on
\* the target side of its hunks: the added lines and the unchanged context
\* lines; removed lines, which have no target line number, add nothing, and
\* a patch without context lines yields exactly its added lines.
C6_TargetSideLines ==
    /\ phase = "hunks" => lnos = { n \in 1..MaxTargetLine : target[n] # "none" }
    /\ PatchStored =>
          /\ patch_path \in DOMAIN diff_lines
          /\ diff_lines[patch_path] =
                { n \in 1..MaxTargetLine : target[n] \in {"added", "context"} }
          /\ (\A n \in 1..MaxTargetLine : target[n] # "context") =>
                diff_lines[patch_path] = { n \in 1..MaxTargetLine : target[n] = "added" }

\* A patch with an added line and a context line has been stored.
C6_Witness ==
    /\ phase = "stored"
    /\ \E n, m \in diff_lines[patch_path] : target[n] = "added" /\ target[m] = "context"


\* ------------------------------------------------------- _config_to_dict

\* An option of a section: unset, or a text. extensions is held as what
\* split(" ") makes of it, command as its words, regex as its pieces.
Unset == [set |-> FALSE, text |-> <<>>]

Opt(text) == [set |-> TRUE, text |-> text]

\* if not ext / if not cmd: None and "" are falsy.
Falsy(opt) == ~opt.set \/ opt.text = <<>>

\* The pieces a regex is made of: the three named groups and literal text,
\* some of which spells "file" without being a group.
GroupFile == "(?P<file>[^:]+)"
GroupLine == "(?P<line>\\d+)"
GroupErr == "(?P<err>[^ :]+)"
LiteralProfile == "profile"

\* "file" in regex, piece by piece.
SpellsFile(piece) == piece \in {GroupFile, LiteralProfile}

\* "file" in regex, for regex = sec.get("regex", "")
FileInRegex(opt) == \E i \in 1..Len(opt.text) : SpellsFile(opt.text[i])

\* The regex has a group named file: match["file"] works on its matches.
HasFileGroup(opt) == \E i \in 1..Len(opt.text) : opt.text[i] = GroupFile

ExtensionOpts == {Unset, Opt(<<>>), Opt(<<".py">>), Opt(<<".py", ".c">>)}

CommandOpts == {Unset, Opt(<<>>), Opt(<<"lint">>)}

RegexOpts ==
    {Unset, Opt(<<GroupFile, GroupLine, GroupErr>>),
     Opt(<<LiteralProfile, GroupLine, GroupErr>>), Opt(<<GroupLine, GroupErr>>)}

RuleSections ==
    [extensions : ExtensionOpts, command : CommandOpts, regex : RegexOpts, options : {<<>>}]

\* The [main] section once _alter_config_with_args has set debug and strict.
MainOptions ==
    { [debug |-> <<"0">>, strict |-> <<"0">>],
      [debug |-> <<"1">>, strict |-> <<"T", "r", "u", "e">>, parallel |-> <<"2">>] }

MainSections ==
    [extensions : {Unset}, command : {Unset}, regex : {Unset}, options : MainOptions]

\* val.lower(), for the letters of "true" and "false".
lower(val) ==
    [i \in 1..Len(val) |->
        CASE val[i] = "T" -> "t"
          [] val[i] = "F" -> "f"
          [] OTHER -> val[i]]

\* _str_to_int_or_bool
str_to_int_or_bool(val) ==
    IF lower(val) = <<"t", "r", "u", "e">> THEN TRUE
    ELSE IF lower(val) = <<"f", "a", "l", "s", "e">> THEN FALSE
    ELSE DecVal(val)

\* config.items(), in order.
SectionNames == <<"main", "pylint", "custom">>

EmptyFinal == [sections |-> {}, exts |-> <<>>, main |-> <<>>, loaded |-> FALSE]

InitConfig ==
    /\ diffs = <<>>
    /\ always_report = None
    /\ IdleParse
    /\ IdleMain
    /\ IdleDiff
    /\ config \in { c \in [{"main", "pylint", "custom"} -> RuleSections \cup MainSections] :
                      /\ c["main"] \in MainSections
                      /\ c["pylint"] \in RuleSections
                      /\ c["custom"] \in RuleSections }
    /\ todo = SectionNames
    /\ final = EmptyFinal
    /\ errors = 0

\* ok after the two checks of a section with extensions.
SectionOk(sec) == FileInRegex(sec.regex) /\ ~Falsy(sec.command)

\* log.error calls the two checks make.
SectionErrors(sec) ==
    (IF FileInRegex(sec.regex) THEN 0 ELSE 1) + (IF Falsy(sec.command) THEN 1 ELSE 0)

\* for ext in ext.split(" "): final[ext].append(secname)
RECURSIVE Register(_, _, _)
Register(exts, toks, secname) ==
    IF toks = <<>> THEN exts
    ELSE LET ext == Head(toks)
             had == IF ext \in DOMAIN exts THEN exts[ext] ELSE <<>>
         IN  Register(DictSet(exts, ext, Append(had, secname)), Tail(toks), secname)

\* A section with no extensions is kept in final and not looked at further.
IgnoreSection ==
    /\ todo # <<>>
    /\ Falsy(config[Head(todo)].extensions)
    /\ final' = [final EXCEPT !.sections = @ \cup {Head(todo)}]
    /\ todo' = Tail(todo)
    /\ UNCHANGED <<config, errors>>
    /\ UNCHANGED <<parseVars, mainVars, diffVars>>

\* if not ok: continue
RejectSection ==
    /\ todo # <<>>
    /\ ~Falsy(config[Head(todo)].extensions)
    /\ ~SectionOk(config[Head(todo)])
    /\ final' = [final EXCEPT !.sections = @ \cup {Head(todo)}]
    /\ errors' = errors + SectionErrors(config[Head(todo)])
    /\ todo' = Tail(todo)
    /\ UNCHANGED config
    /\ UNCHANGED <<parseVars, mainVars, diffVars>>

RegisterSection ==
    /\ todo # <<>>
    /\ ~Falsy(config[Head(todo)].extensions)
    /\ SectionOk(config[Head(todo)])
    /\ final' = [final EXCEPT !.sections = @ \cup {Head(todo)},
                              !.exts = Register(@, config[Head(todo)].extensions.text, Head(todo))]
    /\ todo' = Tail(todo)
    /\ UNCHANGED <<config, errors>>
    /\ UNCHANGED <<parseVars, mainVars, diffVars>>

\* if "main" in final: the keys of [main] are copied into final, parallel,
\* debug and strict converted; then return final.
CopyMain ==
    /\ todo = <<>>
    /\ ~final.loaded
    /\ final' = [final EXCEPT
                    !.main = [key \in DOMAIN config["main"].options |->
                                 IF key \in {"parallel", "debug", "strict"}
                                 THEN str_to_int_or_bool(config["main"].options[key])
                                 ELSE config["main"].options[key]],
                    !.loaded = TRUE]
    /\ UNCHANGED <<config, todo, errors>>
    /\ UNCHANGED <<parseVars, mainVars, diffVars>>

NextConfig == IgnoreSection \/ RejectSection \/ RegisterSection \/ CopyMain

SpecConfig == InitConfig /\ [][NextConfig]_vars

\* The sections final lists under some extension.
Registered ==
    UNION { { final.exts[e][i] : i \in 1..Len(final.exts[e]) } : e \in DOMAIN final.exts }

\* C9 as claimed: a section whose regex has no file group, or whose command
\* is empty or missing, is registered under no extension, so every rule that
\* can be dispatched has a command and a regex with a file group.
C9_InvalidRulesRejected ==
    \A name \in Registered :
        /\ HasFileGroup(config[name].regex)
        /\ ~Falsy(config[name].command)

\* --------------------------------------------------------- claims on main

\* The rule's linter was spawned and exited, and print_lint has returned.
Spawned(r) == r \in linters /\ outcome[r] = "exited" /\ pc[r] = "done"

\* The contribution the specification gives a rule's result.
ClaimedValue(r) ==
    IF linted(ret[r]) = 0 THEN 0
    ELSE IF ret[r].returncode # 0 THEN ret[r].returncode ELSE 1

\* C3 as claimed, for runs in which every rule's linter was spawned and none
\* returned the value of NOTFOUND: the exit status is 0 when no rule has
\* linted > 0, nonzero when some rule has, and is the maximum over the rules of
\* (0 if linted == 0, else returncode if nonzero, else 1).
C3_ExitStatus ==
    ( /\ exited \in {"return", "sys.exit"}
      /\ linters # {}
      /\ \A r \in linters : Spawned(r) /\ ret[r].returncode # NOTFOUND )
    =>
    /\ (\A r \in linters : linted(ret[r]) = 0) => exitcode = 0
    /\ (\E r \in linters : linted(ret[r]) > 0) => exitcode # 0
    /\ exitcode = MaxOf({ ClaimedValue(r) : r \in linters })

\* C4: a command that is not found raises nothing and yields the sentinel
\* LintResult; the rule contributes 1 under strict and 0 otherwise, and when it
\* is the only rule dispatched the run exits 1 under strict and returns
\* without sys.exit otherwise.
C4_CommandNotFound ==
    \A r \in linters :
        outcome[r] = "notfound" =>
            /\ pc[r] # "raised"
            /\ ret[r].returncode = NOTFOUND
            /\ ret[r].mine = 0 /\ ret[r].always = 0 /\ ret[r].other = 0
            /\ ret[r].skipped = 0 /\ ret[r].total = 0
            /\ pc[r] = "done" => value[r] = (IF strict THEN 1 ELSE 0)
            /\ (exited # "no" /\ linters = {r}) =>
                  /\ strict => (exited = "sys.exit" /\ exitcode = 1)
                  /\ ~strict => (exited = "return" /\ exitcode = 0)

\* The only rule's command was not found, under strict, and the run has exited.
C4_Witness ==
    /\ strict
    /\ exited = "sys.exit"
    /\ \E r \in linters : linters = {r} /\ outcome[r] = "notfound"

\* C7: on the console every rule's output block is followed at once by the
\* same rule's summary line, and every summary line follows its own rule's
\* output block; while a block waits for its summary its rule holds the lock.
C7_OutputAtomic ==
    \A i \in 1..Len(console) :
        /\ console[i].what = "output" =>
              IF i < Len(console)
              THEN console[i + 1] = [rule |-> console[i].rule, what |-> "summary"]
              ELSE lock = console[i].rule /\ pc[console[i].rule] = "print_summary"
        /\ console[i].what = "summary" =>
              /\ i > 1
              /\ console[i - 1] = [rule |-> console[i].rule, what |-> "output"]

\* Under parallel > 1 one rule is between its output block and its summary
\* while another has linted and waits for the lock, after a third has printed.
C7_Witness ==
    /\ parallel > 1
    /\ \E r, q \in linters :
          /\ r # q
          /\ pc[r] = "print_summary"
          /\ pc[q] = "lock"
    /\ Len(console) = 3

\* C8 as claimed: when one rule's subprocess.run raises an error other than
\* command-not-found, every other dispatched rule has still run and printed
\* its output and summary when the run ends, and the exit status is nonzero.
C8_OtherRulesStillRun ==
    ( /\ exited # "no"
      /\ \E r \in linters : outcome[r] = "oserror" )
    =>
    /\ exitcode # 0
    /\ \A q \in linters :
          outcome[q] # "oserror" =>
             /\ pc[q] = "done"
             /\ \E i \in 1..Len(console) : console[i] = [rule |-> q, what |-> "output"]
             /\ \E i \in 1..Len(console) : console[i] = [rule |-> q, what |-> "summary"]

\* C10 as claimed: a linter that was spawned and has linted > 0 contributes
\* its return code, or 1 when that is 0: never 0, and the same under strict
\* and not.
C10_NotFoundReserved ==
    \A r \in linters :
        (Spawned(r) /\ linted(ret[r]) > 0) =>
            /\ value[r] # 0
            /\ value[r] = (IF ret[r].returncode # 0 THEN ret[r].returncode ELSE 1)

\* ------------------------------------------------- claims on parse_output

\* The lines the loop has consumed so far, in order.
Consumed == SubSeq(stdout, 1, lineix)

\* The line's (file, line) is in the diff index.
InDiffIndex(line) ==
    LnoIn(ParseLno(line.line), DiffGet(diffs, translate(line.file)))

\* always_report is configured (non-empty) and matches the line's err.
AlwaysHits(line) == AlwaysMatch(always_report, line.err)

IsUnmatched(line) == ~line.match
IsInDiff(line) == line.match /\ InDiffIndex(line)
IsInDiffNoAlways(line) == line.match /\ InDiffIndex(line) /\ ~AlwaysHits(line)
IsAlwaysHit(line) == line.match /\ AlwaysHits(line)
IsAlwaysOutside(line) == line.match /\ ~InDiffIndex(line) /\ AlwaysHits(line)
IsSurfaced(line) == line.match /\ (InDiffIndex(line) \/ AlwaysHits(line))
IsSuppressed(line) == line.match /\ ~InDiffIndex(line) /\ ~AlwaysHits(line)

IsFindingEntry(e) == e[1] = ""
IsHashEntry(e) == e[1] = "# "

\* The lines of the entries of outf that satisfy Test, in order.
EntryLines(outf, Test(_)) ==
    LET sel == SelectSeq(outf, Test) IN [i \in 1..Len(sel) |-> sel[i][2]]

\* C1: the findings in the filtered output are exactly the matched lines that
\* are in the diff or hit always_report, verbatim and in their original
\* order, as many as mine + always; the matched lines that are neither are
\* counted in other and are not in the output.
C1_FilteredOutput ==
    /\ EntryLines(acc.outf, IsFindingEntry) = SelectSeq(Consumed, IsSurfaced)
    /\ Len(SelectSeq(acc.outf, IsFindingEntry)) = acc.mine_cnt + acc.always_cnt
    /\ acc.other_cnt = Len(SelectSeq(Consumed, IsSuppressed))
    /\ result # NoResult =>
          /\ result.output = acc.outf
          /\ result.other = acc.other_cnt
          /\ linted(result) = Len(SelectSeq(stdout, IsSurfaced))

\* parse_output has returned with one finding surfaced and one suppressed.
C1_Witness ==
    /\ result # NoResult
    /\ result.other = 1
    /\ linted(result) = 1
    /\ Len(result.output) = 1

\* C2 as claimed: a line whose err hits always_report counts as always, in
\* the diff or not; mine counts only lines in the diff that do not hit it.
C2_AlwaysDominates ==
    /\ acc.always_cnt = Len(SelectSeq(Consumed, IsAlwaysHit))
    /\ acc.mine_cnt = Len(SelectSeq(Consumed, IsInDiffNoAlways))

\* C2 as amended: a line whose err hits always_report is surfaced in the diff or
\* not, and is never counted in other; it counts as mine when its (file, line)
\* is in the diff index and as always only when it is not. mine counts exactly
\* the matched lines in the diff index, whatever always_report says.
C2_DiffMembershipFirst ==
    /\ acc.mine_cnt = Len(SelectSeq(Consumed, IsInDiff))
    /\ acc.always_cnt = Len(SelectSeq(Consumed, IsAlwaysOutside))
    /\ \A i \in 1..lineix :
          IsAlwaysHit(stdout[i]) =>
             \E j \in 1..Len(acc.outf) : acc.outf[j] = <<"", stdout[i]>>
    /\ acc.total_cnt = lineix
    /\ acc.mine_cnt + acc.always_cnt + acc.other_cnt + acc.skipped_cnt = lineix

\* A line in the diff that hits always_report has been counted (as mine), and
\* so has one outside the diff (as always).
C2_Witness ==
    /\ \E i \in 1..lineix : IsAlwaysHit(stdout[i]) /\ InDiffIndex(stdout[i])
    /\ \E i \in 1..lineix : IsAlwaysOutside(stdout[i])
    /\ acc.mine_cnt = 1
    /\ acc.always_cnt = 1

\* C5 as claimed: an unmatched line increments skipped and nothing else, and is
\* written to the filtered output (with its prefix) only in debug mode.
C5_UnmatchedOnlyInDebug ==
    /\ acc.skipped_cnt = Len(SelectSeq(Consumed, IsUnmatched))
    /\ EntryLines(acc.outf, IsHashEntry) =
          IF debug THEN SelectSeq(Consumed, IsUnmatched) ELSE <<>>

=============================================================================
